---- MODULE Spec2Model ----
(***************************************************************************)
(* Model of pony/dbproviders/sqlite.py: the facade classes built at module *)
(* import, the call-marshalling bridge (in_dedicated_thread, mem_queue,    *)
(* SqliteMemoryDbThread), MemPool, and the per-thread file Pool.           *)
(***************************************************************************)
EXTENDS Integers, Sequences, FiniteSets, TLC

(* ------------------------------ bounds -------------------------------- *)

\* number of caller threads
NumCallers == 2

\* number of marshalled calls submitted in one behaviour
MaxCalls == 3

\* number of connections sqlite.connect(filename) makes in one behaviour
MaxConns == 2

\* longest str or unicode value validated, and largest max length declared
MaxLen == 2

\* largest int validated; the largest int bound configured is MaxInt - 1
MaxInt == 11

\* largest scale configured for a Decimal attribute
MaxScale == 2

Threads == 1..NumCallers
CallIds == 1..MaxCalls

(* ------------------- facade allow-lists (lines 420-447) ---------------- *)

sqlite_con_methods ==
    << "cursor", "commit", "rollback", "close", "execute", "executemany",
       "executescript", "create_function", "create_aggregate",
       "create_collation", "set_authorizer", "set_process_handler" >>

sqlite_con_properties ==
    << "isolation_level", "row_factory", "text_factory", "total_changes" >>

sqlite_cur_methods ==
    << "execute", "executemany", "executescript", "fetchone", "fetchmany",
       "fetchall", "next", "close", "setinputsize", "setoutputsize" >>

sqlite_cur_properties ==
    << "rowcount", "lastrowid", "description", "arraysize" >>

Range(s) == { s[i] : i \in 1..Len(s) }

\* every attribute name the two facade classes can carry
Names ==
    Range(sqlite_con_methods) \cup Range(sqlite_con_properties)
      \cup Range(sqlite_cur_methods) \cup Range(sqlite_cur_properties)
      \cup { "__init__", "interrupt", "iterdump", "__iter__" }

\* class attribute descriptors
Absent == [kind |-> "absent", member |-> ""]

\* make_wrapper_method(method_name): an in_dedicated_thread wrapper that
\* forwards to getattr(wrapper.obj, method_name)
make_wrapper_method(method_name) ==
    [kind |-> "marshalled_method", member |-> method_name]

\* make_wrapper_property(attr): a property whose getter and setter are
\* in_dedicated_thread wrappers around getattr/setattr(wrapper.obj, attr)
make_wrapper_property(attr) ==
    [kind |-> "marshalled_property", member |-> attr]

\* the attributes the class statement of MemoryConnectionWrapper defines
MemoryConnectionWrapperBody ==
    [n \in Names |->
        CASE n = "__init__"  -> [kind |-> "marshalled_method", member |-> "__init__"]
          [] n = "interrupt" -> [kind |-> "direct_method", member |-> "interrupt"]
          [] n = "iterdump"  -> [kind |-> "marshalled_method", member |-> "iterdump"]
          [] OTHER           -> Absent]

\* the attributes the class statement of MemoryCursorWrapper defines
MemoryCursorWrapperBody ==
    [n \in Names |->
        CASE n = "__init__" -> [kind |-> "direct_method", member |-> "__init__"]
          [] n = "__iter__" -> [kind |-> "direct_method", member |-> "__iter__"]
          [] OTHER          -> Absent]

(* ------------------------------ state --------------------------------- *)

VARIABLES
    loadPc,      \* position of the module body: which loop of 420-466 runs
    idx,         \* position inside the running loop
    m,           \* module global m (loop variable of the method loops)
    p,           \* module global p (loop variable of the property loops)
    conAttrs,    \* attributes of class MemoryConnectionWrapper
    curAttrs,    \* attributes of class MemoryCursorWrapper
    mem_queue,   \* mem_queue: the items put and not yet taken
    lock,        \* local.lock of each caller thread: "held" or "free"
    holder,      \* result_holder of each call: the list the worker appends to
    pc,          \* where each caller thread is
    call,        \* the call each caller thread is in (or was last in)
    ret,         \* what the last call of each caller thread gave it
    wpc,         \* where the worker thread is
    cur,         \* the item x the worker took last
    nextId,      \* identity of the next result_holder created
    executing,   \* marshalled functions in progress, with the executing thread
    outcome,     \* how each call's function ended on the worker
    enqueued,    \* order in which calls were put on mem_queue
    started,     \* order in which the worker started calls
    interrupted, \* the engine was asked to interrupt the running operation
    shutdown,    \* the None sentinel has been put
    mem_connect_lock, \* holder of mem_connect_lock (0: free)
    mempoolCon,  \* mempool.con of the MemPool each thread is constructing
    pools,       \* con of every MemPool constructed
    engineCons,  \* engine connections made by sqlite.connect(':memory:')
    create_db,   \* Pool.create_db
    fileExists,  \* os.path.exists(pool.filename)
    poolCon,     \* Pool.con, one slot per thread (Pool is a localbase)
    conns,       \* every connection sqlite.connect(filename) has made
    ppc,         \* where each thread is inside Pool.connect
    pret,        \* what the last Pool call of each thread gave it
    attr,        \* the schema attribute a converter is built for
    converter,   \* the Converter object built for attr
    cop,         \* the converter operation called last
    carg,        \* the argument of that operation
    cret,        \* what it returned
    cerr         \* what it raised

loadVars == << loadPc, idx, m, p, conAttrs, curAttrs >>
bridgeVars == << mem_queue, lock, holder, pc, call, ret, wpc, cur, nextId,
                 executing, outcome, enqueued, started,
                 interrupted, shutdown >>
memVars == << mem_connect_lock, mempoolCon, pools, engineCons >>
poolVars == << create_db, fileExists, poolCon, conns, ppc, pret >>
convVars == << attr, converter, cop, carg, cret, cerr >>
vars == << loadVars, bridgeVars, memVars, poolVars, convVars >>

NoFunc == [cls |-> "", access |-> "", member |-> ""]
\* the shutdown sentinel None
NoneItem == [lock |-> 0, func |-> NoFunc, holder |-> 0]
NoCall == [id |-> 0, func |-> NoFunc, then |-> "", ahead |-> FALSE]
NoRet == [kind |-> "none", of |-> 0]
NoPoolRet == [op |-> "", kind |-> "none", con |-> 0, err |-> ""]

(* ------------------- Python values the converters see ------------------ *)

\* None
NoneV == [t |-> "None"]

\* an int (or long)
IntV(i) == [t |-> "int", n |-> i]

\* a str: a sequence of bytes, "a" an ASCII byte, "h" a byte >= 0x80; the
\* text of a number is made of the ASCII bytes "0".."9", "-", "."
StrV(bytes) == [t |-> "str", s |-> bytes]

\* a unicode: a sequence of code points, "a" below U+0080, "e" in
\* U+0080..U+00FF, "w" above U+00FF
UnicodeV(points) == [t |-> "unicode", s |-> points]

\* a Decimal: (-1)^neg * coef * 10^(-digits)
DecV(neg, coef, digits) ==
    [t |-> "Decimal", neg |-> neg, coef |-> coef, digits |-> digits]

\* no attribute: Converter(attr=None)
NoAttr == [py_type |-> "", args |-> << >>, keyargs |-> << >>]

\* no converter object
NoConverter == [cls |-> ""]

\* a Local.__init__ that leaves the new lock unlocked
Local__init__unlocked == [t \in Threads |-> "free"]

\* lines 373-375: local.lock = Lock(); local.lock.acquire(), in each thread
Local__init__ == [t \in Threads |-> "held"]

\* the module's globals before the loops of lines 424-447 run
InitBridge ==
    /\ loadPc = "con_methods"
    /\ idx = 1
    /\ m = ""
    /\ p = ""
    /\ conAttrs = MemoryConnectionWrapperBody
    /\ curAttrs = MemoryCursorWrapperBody
    /\ mem_queue = << >>
    /\ lock = Local__init__
    /\ holder = [c \in CallIds |-> << >>]
    /\ pc = [t \in Threads |-> "idle"]
    /\ call = [t \in Threads |-> NoCall]
    /\ ret = [t \in Threads |-> NoRet]
    /\ wpc = "unstarted"
    /\ cur = NoneItem
    /\ nextId = 1
    /\ executing = {}
    /\ outcome = [c \in CallIds |-> "none"]
    /\ enqueued = << >>
    /\ started = << >>
    /\ interrupted = FALSE
    /\ shutdown = FALSE
    /\ mem_connect_lock = 0
    /\ mempoolCon = [t \in Threads |-> 0]
    /\ pools = {}
    /\ engineCons = {}

\* Pool.__init__ (run in each thread on first use): pool.con = None
InitPool ==
    /\ poolCon = [t \in Threads |-> 0]
    /\ conns = << >>
    /\ ppc = [t \in Threads |-> "idle"]
    /\ pret = [t \in Threads |-> NoPoolRet]

\* no converter has been asked for
InitConv ==
    /\ attr = NoAttr
    /\ converter = NoConverter
    /\ cop = ""
    /\ carg = NoneV
    /\ cret = NoneV
    /\ cerr = ""

Init ==
    /\ InitBridge
    /\ InitPool
    /\ InitConv
    /\ create_db = FALSE
    /\ fileExists = FALSE

\* a file-backed Pool: get_pool(filename, create_db), the file there or not
PoolInit ==
    /\ InitBridge
    /\ InitPool
    /\ InitConv
    /\ create_db \in BOOLEAN
    /\ fileExists \in BOOLEAN

(* ---------------- module body: building the facades ------------------- *)

\* for m in sqlite_con_methods: setattr(MemoryConnectionWrapper, m, ...)
LoadConMethod ==
    /\ loadPc = "con_methods"
    /\ IF idx <= Len(sqlite_con_methods)
         THEN /\ m' = sqlite_con_methods[idx]
              /\ conAttrs' = [conAttrs EXCEPT ![m'] = make_wrapper_method(m')]
              /\ idx' = idx + 1
              /\ UNCHANGED loadPc
         ELSE /\ loadPc' = "con_properties"
              /\ idx' = 1
              /\ UNCHANGED << m, conAttrs >>
    /\ UNCHANGED << p, curAttrs, bridgeVars, memVars >>
    /\ UNCHANGED << poolVars, convVars >>

\* for p in sqlite_con_properties: setattr(MemoryConnectionWrapper, m, ...)
LoadConProperty ==
    /\ loadPc = "con_properties"
    /\ IF idx <= Len(sqlite_con_properties)
         THEN /\ p' = sqlite_con_properties[idx]
              /\ conAttrs' = [conAttrs EXCEPT ![m] = make_wrapper_property(p')]
              /\ idx' = idx + 1
              /\ UNCHANGED loadPc
         ELSE /\ loadPc' = "cur_methods"
              /\ idx' = 1
              /\ UNCHANGED << p, conAttrs >>
    /\ UNCHANGED << m, curAttrs, bridgeVars, memVars >>
    /\ UNCHANGED << poolVars, convVars >>

\* for m in sqlite_cur_methods: setattr(MemoryCursorWrapper, m, ...)
LoadCurMethod ==
    /\ loadPc = "cur_methods"
    /\ IF idx <= Len(sqlite_cur_methods)
         THEN /\ m' = sqlite_cur_methods[idx]
              /\ curAttrs' = [curAttrs EXCEPT ![m'] = make_wrapper_method(m')]
              /\ idx' = idx + 1
              /\ UNCHANGED loadPc
         ELSE /\ loadPc' = "cur_properties"
              /\ idx' = 1
              /\ UNCHANGED << m, curAttrs >>
    /\ UNCHANGED << p, conAttrs, bridgeVars, memVars >>
    /\ UNCHANGED << poolVars, convVars >>

\* for p in sqlite_cur_properties: setattr(MemoryCursorWrapper, p, ...)
LoadCurProperty ==
    /\ loadPc = "cur_properties"
    /\ IF idx <= Len(sqlite_cur_properties)
         THEN /\ p' = sqlite_cur_properties[idx]
              /\ curAttrs' = [curAttrs EXCEPT ![p'] = make_wrapper_property(p')]
              /\ idx' = idx + 1
              /\ UNCHANGED loadPc
         ELSE /\ loadPc' = "start"
              /\ idx' = 1
              /\ UNCHANGED << p, curAttrs >>
    /\ UNCHANGED << m, conAttrs, bridgeVars, memVars >>
    /\ UNCHANGED << poolVars, convVars >>

\* mem_thread = SqliteMemoryDbThread(); mem_thread.start()
StartThread ==
    /\ loadPc = "start"
    /\ loadPc' = "done"
    /\ wpc' = "get"
    /\ UNCHANGED << idx, m, p, conAttrs, curAttrs, mem_queue, lock, holder,
                    pc, call, ret, cur, nextId, executing, outcome,
                    enqueued, started, interrupted, shutdown, memVars >>
    /\ UNCHANGED << poolVars, convVars >>

Loaded == loadPc = "done"

(* --------------- the bridge: in_dedicated_thread ---------------------- *)

\* names the modelled callers use on a connection facade
ConUsed == { "cursor", "execute", "text_factory" }

\* names the modelled callers use on a cursor facade
CurUsed == { "execute", "fetchone", "rowcount" }

Lookup(cls, name) == IF cls = "con" THEN conAttrs[name] ELSE curAttrs[name]

\* a decorator that calls func in the calling thread instead of queueing it
in_dedicated_thread_direct(t, f, then) ==
    /\ nextId <= MaxCalls
    /\ executing' = executing \cup { << nextId, t >> }
    /\ call' = [call EXCEPT ![t] =
                  [id |-> nextId, func |-> f, then |-> then, ahead |-> shutdown]]
    /\ pc' = [pc EXCEPT ![t] = "acquire"]
    /\ ret' = [ret EXCEPT ![t] = NoRet]
    /\ nextId' = nextId + 1
    /\ UNCHANGED << mem_queue, enqueued, holder, outcome, started >>

\* lines 381-382: result_holder = []; mem_queue.put((local.lock, func, args,
\* keyargs, result_holder)); the caller goes on to local.lock.acquire()
in_dedicated_thread_put(t, f, then) ==
    /\ nextId <= MaxCalls
    /\ mem_queue' = Append(mem_queue, [lock |-> t, func |-> f, holder |-> nextId])
    /\ call' = [call EXCEPT ![t] =
                  [id |-> nextId, func |-> f, then |-> then, ahead |-> shutdown]]
    /\ pc' = [pc EXCEPT ![t] = "acquire"]
    /\ ret' = [ret EXCEPT ![t] = NoRet]
    /\ enqueued' = Append(enqueued, nextId)
    /\ nextId' = nextId + 1
    \* the previous result_holder of this thread is garbage by now
    /\ holder' = [c \in CallIds |-> IF c = call[t].id THEN << >> ELSE holder[c]]
    /\ outcome' = [c \in CallIds |-> IF c = call[t].id THEN "none" ELSE outcome[c]]
    /\ UNCHANGED << executing, started >>

\* a caller that returns result_holder[0] as it is
in_dedicated_thread_result_raw(h) ==
    IF h = << >> THEN [kind |-> "IndexError", of |-> 0]
    ELSE IF h[1].kind = "exc" THEN [kind |-> "raise", of |-> h[1].of]
    ELSE [kind |-> h[1].kind, of |-> h[1].of]

\* lines 384-389: what the caller makes of result_holder[0]
in_dedicated_thread_result(h) ==
    IF h = << >> THEN [kind |-> "IndexError", of |-> 0]
    ELSE IF h[1].kind = "exc" THEN [kind |-> "raise", of |-> h[1].of]
    ELSE IF h[1].kind = "cursor" THEN [kind |-> "wrapper", of |-> h[1].of]
    ELSE [kind |-> h[1].kind, of |-> h[1].of]

\* a caller uses attribute `name` of a facade of class cls
FacadeCall(t, cls, name, access) ==
    /\ Loaded
    /\ pc[t] = "idle"
    /\ IF cls = "con" THEN name \in ConUsed /\ pools # {}
                      ELSE name \in CurUsed /\ ret[t].kind = "wrapper"
    /\ LET d == Lookup(cls, name) IN
         CASE d.kind = "marshalled_method" ->
                /\ access = "call"
                /\ in_dedicated_thread_put(t,
                      [cls |-> cls, access |-> "call", member |-> d.member], "")
           [] d.kind = "marshalled_property" ->
                /\ access \in {"get", "set"}
                /\ in_dedicated_thread_put(t,
                      [cls |-> cls, access |-> access, member |-> d.member], "")
           [] OTHER ->
                \* no such class attribute: a read raises AttributeError in
                \* the caller; nothing is marshalled
                /\ access = "get"
                /\ ret' = [ret EXCEPT ![t] = [kind |-> "AttributeError", of |-> 0]]
                /\ call' = [call EXCEPT ![t] = NoCall]
                /\ holder' = [c \in CallIds |->
                                IF c = call[t].id THEN << >> ELSE holder[c]]
                /\ outcome' = [c \in CallIds |->
                                IF c = call[t].id THEN "none" ELSE outcome[c]]
                /\ UNCHANGED << mem_queue, pc, enqueued, nextId,
                                executing, started >>
    /\ UNCHANGED << loadVars, lock, wpc, cur, interrupted, shutdown, memVars >>
    /\ UNCHANGED << poolVars, convVars >>

\* get_pool(':memory:') -> MemPool() -> line 65: MemoryConnectionWrapper()
GetPool(t) ==
    /\ Loaded
    /\ pc[t] = "idle"
    /\ in_dedicated_thread_put(t,
          [cls |-> "con", access |-> "call", member |-> "__init__"], "mempool65")
    /\ UNCHANGED << loadVars, lock, wpc, cur, interrupted, shutdown, memVars >>
    /\ UNCHANGED << poolVars, convVars >>

\* lines 383-389: local.lock.acquire() succeeds; read result_holder[0].
\* A call made by MemPool.__init__ goes on in MemPool.__init__.
Wake(t) ==
    /\ pc[t] = "acquire"
    /\ lock[t] = "free"
    /\ lock' = [lock EXCEPT ![t] = "held"]
    /\ call' = [call EXCEPT ![t].func = NoFunc]
    /\ LET r == in_dedicated_thread_result(holder[call[t].id]) IN
         /\ ret' = [ret EXCEPT ![t] = r]
         /\ CASE call[t].then = "mempool65" ->
                   \* line 65: mempool.con = <the new facade>
                   /\ mempoolCon' = [mempoolCon EXCEPT ![t] =
                                        IF r.kind = "val" THEN call[t].id ELSE 0]
                   /\ pc' = [pc EXCEPT ![t] =
                                IF r.kind = "val" THEN "mp_acquire" ELSE "idle"]
                   /\ UNCHANGED << mem_connect_lock, pools >>
              [] call[t].then = "mempool69" ->
                   \* line 69, then line 70: finally: mem_connect_lock.release()
                   /\ mem_connect_lock' = 0
                   /\ pools' = IF r.kind = "val" THEN pools \cup { call[t].id }
                                                 ELSE pools
                   /\ pc' = [pc EXCEPT ![t] = "idle"]
                   /\ UNCHANGED mempoolCon
              [] OTHER ->
                   /\ pc' = [pc EXCEPT ![t] = "idle"]
                   /\ UNCHANGED << mempoolCon, mem_connect_lock, pools >>
    /\ UNCHANGED << loadVars, mem_queue, holder, wpc, cur, nextId,
                    executing, outcome, enqueued, started,
                    interrupted, shutdown, engineCons >>
    /\ UNCHANGED << poolVars, convVars >>

(* --------------- the bridge: SqliteMemoryDbThread.run ----------------- *)

\* a get that takes the newest item
QueueGetLast(q) == [item |-> q[Len(q)], rest |-> SubSeq(q, 1, Len(q) - 1)]

\* Queue.get(): the oldest item and what stays queued
QueueGet(q) == [item |-> Head(q), rest |-> Tail(q)]

\* line 455-458: x = mem_queue.get(); None ends the loop; else func is entered
WorkerGet ==
    /\ wpc = "get"
    /\ mem_queue # << >>
    /\ LET g == QueueGet(mem_queue) IN
         /\ mem_queue' = g.rest
         /\ IF g.item = NoneItem
              THEN /\ wpc' = "stopped"
                   /\ UNCHANGED << cur, executing, started >>
              ELSE /\ wpc' = "exec"
                   /\ cur' = g.item
                   /\ executing' = executing \cup { << g.item.holder, 0 >> }
                   /\ started' = Append(started, g.item.holder)
    /\ UNCHANGED << loadVars, lock, holder, pc, call, ret, nextId, outcome,
                    enqueued, interrupted, shutdown, memVars >>
    /\ UNCHANGED << poolVars, convVars >>

\* cursor-returning members of the real connection and cursor
ReturnsCursor(f) ==
    /\ f.access = "call"
    /\ f.member \in { "cursor", "execute", "executemany", "executescript" }

\* members that run caller-supplied code (parameter sequences, iterators) on
\* the worker, which may raise something that is not an Exception
RunsUserCode(f) ==
    /\ f.access = "call"
    /\ f.member \in { "execute", "executemany" }

\* the ways func(*args, **keyargs) can end on the worker
Outcomes(f) ==
    (IF ReturnsCursor(f) THEN { "cursor" } ELSE { "val" })
      \cup { "exc" }
      \cup (IF RunsUserCode(f) THEN { "base" } ELSE {})

\* a worker that appends the result a second time after a failure
WorkerFinishTwice(o) ==
    /\ wpc = "exec"
    /\ o \in Outcomes(cur.func)
    /\ executing' = executing \ { << cur.holder, 0 >> }
    /\ outcome' = [outcome EXCEPT ![cur.holder] = o]
    /\ interrupted' = FALSE
    /\ engineCons' = IF cur.func.member = "__init__" /\ o = "val"
                       THEN engineCons \cup { cur.holder } ELSE engineCons
    /\ IF o = "base"
         THEN /\ wpc' = "dead"
              /\ UNCHANGED holder
         ELSE /\ wpc' = "release"
              /\ holder' = [holder EXCEPT ![cur.holder] =
                              IF o = "exc"
                                THEN << [kind |-> o, of |-> cur.holder],
                                        [kind |-> o, of |-> cur.holder] >>
                                ELSE Append(@, [kind |-> o, of |-> cur.holder])]
    /\ UNCHANGED << loadVars, mem_queue, lock, pc, call, ret, cur, nextId,
                    enqueued, started, shutdown,
                    mem_connect_lock, mempoolCon, pools >>
    /\ UNCHANGED << poolVars, convVars >>

\* lines 458-462: func returns or raises; the result or the caught Exception
\* is appended to result_holder; anything else leaves run() and ends the thread
WorkerFinish(o) ==
    /\ wpc = "exec"
    /\ o \in Outcomes(cur.func)
    /\ executing' = executing \ { << cur.holder, 0 >> }
    /\ outcome' = [outcome EXCEPT ![cur.holder] = o]
    /\ interrupted' = FALSE
    /\ engineCons' = IF cur.func.member = "__init__" /\ o = "val"
                       THEN engineCons \cup { cur.holder } ELSE engineCons
    /\ IF o = "base"
         THEN /\ wpc' = "dead"
              /\ UNCHANGED holder
         ELSE /\ wpc' = "release"
              /\ holder' = [holder EXCEPT ![cur.holder] =
                              Append(@, [kind |-> o, of |-> cur.holder])]
    /\ UNCHANGED << loadVars, mem_queue, lock, pc, call, ret, cur, nextId,
                    enqueued, started, shutdown,
                    mem_connect_lock, mempoolCon, pools >>
    /\ UNCHANGED << poolVars, convVars >>

\* line 463: if lock is not None: lock.release()
WorkerRelease ==
    /\ wpc = "release"
    /\ IF cur.lock = 0
         THEN /\ wpc' = "get"
              /\ UNCHANGED lock
         ELSE IF lock[cur.lock] = "held"
                THEN /\ lock' = [lock EXCEPT ![cur.lock] = "free"]
                     /\ wpc' = "get"
                ELSE \* releasing an unlocked lock raises thread.error
                     /\ wpc' = "dead"
                     /\ UNCHANGED lock
    /\ UNCHANGED << loadVars, mem_queue, holder, pc, call, ret, cur, nextId,
                    executing, outcome, enqueued, started,
                    interrupted, shutdown, memVars >>
    /\ UNCHANGED << poolVars, convVars >>

\* process shutdown puts the sentinel None (line 456 consumes it)
Shutdown ==
    /\ Loaded
    /\ ~shutdown
    /\ shutdown' = TRUE
    /\ mem_queue' = Append(mem_queue, NoneItem)
    /\ UNCHANGED << loadVars, lock, holder, pc, call, ret, wpc, cur, nextId,
                    executing, outcome, enqueued, started,
                    interrupted, memVars >>
    /\ UNCHANGED << poolVars, convVars >>

\* an interrupt that goes through the bridge like every other method
InterruptMarshalled(t) ==
    /\ Loaded
    /\ pc[t] = "idle"
    /\ pools # {}
    /\ in_dedicated_thread_put(t,
          [cls |-> "con", access |-> "call", member |-> "interrupt"], "")
    /\ UNCHANGED << loadVars, lock, wpc, cur, interrupted, shutdown, memVars >>
    /\ UNCHANGED << poolVars, convVars >>

\* lines 414-415: MemoryConnectionWrapper.interrupt: wrapper.obj.interrupt()
\* in the calling thread; the engine aborts the operation in progress, if any
Interrupt(t) ==
    /\ Loaded
    /\ pc[t] = "idle"
    /\ pools # {}
    /\ Lookup("con", "interrupt").kind = "direct_method"
    /\ interrupted' = (wpc = "exec")
    /\ UNCHANGED << loadVars, mem_queue, lock, holder, pc, call, ret, wpc, cur,
                    nextId, executing, outcome, enqueued, started,
                    shutdown, memVars >>
    /\ UNCHANGED << poolVars, convVars >>

(* ------------------------------ MemPool ------------------------------- *)

\* lines 66-70: mem_connect_lock.acquire(); if mempool.con is None:
\* mempool.con = MemoryConnectionWrapper(); finally: mem_connect_lock.release()
MemPoolLocked(t) ==
    /\ pc[t] = "mp_acquire"
    /\ mem_connect_lock = 0
    /\ IF mempoolCon[t] = 0
         THEN /\ mem_connect_lock' = t
              /\ in_dedicated_thread_put(t,
                    [cls |-> "con", access |-> "call", member |-> "__init__"],
                    "mempool69")
              /\ UNCHANGED << mempoolCon, pools >>
         ELSE /\ pools' = pools \cup { mempoolCon[t] }
              /\ mempoolCon' = [mempoolCon EXCEPT ![t] = 0]
              /\ pc' = [pc EXCEPT ![t] = "idle"]
              /\ UNCHANGED << mem_connect_lock, mem_queue, call, ret, enqueued,
                              nextId, executing, outcome, started, holder >>
    /\ UNCHANGED << loadVars, lock, wpc, cur, interrupted, shutdown, engineCons >>
    /\ UNCHANGED << poolVars, convVars >>

(* ------------------------- Pool (file-backed) ------------------------- *)

\* a Pool whose con is one attribute shared by all threads
SlotShared(t) == 1

\* Pool is a localbase: thread t reads and writes its own pool.con
Slot(t) == t

\* connections thread t may hold a reference to
HandlesOf(t) == { h \in 1..Len(conns) : conns[h].owner = t }

\* lines 41-47: Pool.connect up to pool.con = con = sqlite.connect(filename)
PoolConnect(t, ok) ==
    /\ ppc[t] = "idle"
    /\ IF poolCon[Slot(t)] # 0
         THEN /\ pret' = [pret EXCEPT ![t] = [op |-> "connect", kind |-> "con",
                                              con |-> poolCon[Slot(t)], err |-> ""]]
              /\ UNCHANGED << poolCon, conns, ppc, fileExists >>
         ELSE IF ~create_db /\ ~fileExists
           THEN /\ pret' = [pret EXCEPT ![t] = [op |-> "connect", kind |-> "raise",
                                                con |-> 0, err |-> "IOError"]]
                /\ UNCHANGED << poolCon, conns, ppc, fileExists >>
           ELSE IF ~ok
             THEN \* sqlite.connect raised: pool.con is not assigned
                  /\ pret' = [pret EXCEPT ![t] = [op |-> "connect", kind |-> "raise",
                                                  con |-> 0, err |-> "connect"]]
                  /\ UNCHANGED << poolCon, conns, ppc, fileExists >>
             ELSE /\ Len(conns) < MaxConns
                  /\ conns' = Append(conns, [state |-> "open", owner |-> t,
                                             text_factory |-> FALSE, pow |-> FALSE])
                  /\ poolCon' = [poolCon EXCEPT ![Slot(t)] = Len(conns) + 1]
                  /\ fileExists' = TRUE
                  /\ ppc' = [ppc EXCEPT ![t] = "init"]
                  /\ pret' = [pret EXCEPT ![t] = [op |-> "connect", kind |-> "pending",
                                                  con |-> Len(conns) + 1, err |-> ""]]
    /\ UNCHANGED << create_db, loadVars, bridgeVars, memVars, convVars >>

\* lines 48-49 and 86-88: _init_connection(con); return con
InitConnection(t, ok) ==
    /\ ppc[t] = "init"
    /\ LET con == pret[t].con IN
         /\ conns' = [conns EXCEPT ![con].text_factory = TRUE, ![con].pow = ok]
         /\ pret' = [pret EXCEPT ![t] =
                       IF ok THEN [op |-> "connect", kind |-> "con", con |-> con, err |-> ""]
                             ELSE [op |-> "connect", kind |-> "raise", con |-> 0,
                                   err |-> "create_function"]]
    /\ ppc' = [ppc EXCEPT ![t] = "idle"]
    /\ UNCHANGED << create_db, fileExists, poolCon, loadVars, bridgeVars, memVars, convVars >>

\* a close that leaves the closed connection in pool.con
PoolCloseKeepsCache(t, con) ==
    /\ poolCon' = poolCon
    /\ conns' = [conns EXCEPT ![con].state = "closed"]

\* lines 56-59: Pool.close, as far as it changes the state
PoolCloseEffect(t, con) ==
    /\ poolCon' = [poolCon EXCEPT ![Slot(t)] = 0]
    /\ conns' = [conns EXCEPT ![con].state = "closed"]

\* lines 50-55: Pool.release(con); ok: con.rollback() returns
PoolRelease(t, con, ok) ==
    /\ ppc[t] = "idle"
    /\ con \in HandlesOf(t)
    /\ IF con # poolCon[Slot(t)]
         THEN /\ pret' = [pret EXCEPT ![t] = [op |-> "release", kind |-> "raise",
                                              con |-> con, err |-> "AssertionError"]]
              /\ UNCHANGED << poolCon, conns >>
         ELSE IF ok
           THEN /\ pret' = [pret EXCEPT ![t] = [op |-> "release", kind |-> "ok",
                                                con |-> con, err |-> ""]]
                /\ UNCHANGED << poolCon, conns >>
           ELSE /\ PoolCloseEffect(t, con)
                /\ pret' = [pret EXCEPT ![t] = [op |-> "release", kind |-> "raise",
                                                con |-> con, err |-> "rollback"]]
    /\ UNCHANGED << create_db, fileExists, ppc, loadVars, bridgeVars, memVars, convVars >>

\* lines 56-59: Pool.close(con)
PoolClose(t, con) ==
    /\ ppc[t] = "idle"
    /\ con \in HandlesOf(t)
    /\ IF con # poolCon[Slot(t)]
         THEN /\ pret' = [pret EXCEPT ![t] = [op |-> "close", kind |-> "raise",
                                              con |-> con, err |-> "AssertionError"]]
              /\ UNCHANGED << poolCon, conns >>
         ELSE /\ PoolCloseEffect(t, con)
              /\ pret' = [pret EXCEPT ![t] = [op |-> "close", kind |-> "ok",
                                              con |-> con, err |-> ""]]
    /\ UNCHANGED << create_db, fileExists, ppc, loadVars, bridgeVars, memVars, convVars >>

\* line 45: os.path.exists(filename) may stop holding: the file is removed
RemoveFile ==
    /\ fileExists
    /\ fileExists' = FALSE
    /\ UNCHANGED << create_db, poolCon, conns, ppc, pret,
                    loadVars, bridgeVars, memVars, convVars >>

(* ------------------------------ converters ----------------------------- *)

\* an operation that returned v
Ok(v) == [err |-> "", val |-> v]

\* an operation that raised e
Raise(e) == [err |-> e, val |-> NoneV]

\* the name of a codec, as given for the 'encoding' option
CodecV(name) == [t |-> "codec", name |-> name]

\* the bytes of one code point in a codec; << >>: the codec has none for it
EncodePoint(c, codec) ==
    CASE codec = "ascii"  -> IF c = "a" THEN << "a" >> ELSE << >>
      [] codec = "latin1" -> IF c = "a" THEN << "a" >>
                             ELSE IF c = "e" THEN << "h" >> ELSE << >>
      [] codec = "utf8"   -> IF c = "a" THEN << "a" >>
                             ELSE IF c = "e" THEN << "h", "h" >>
                             ELSE << "h", "h", "h" >>
      [] OTHER            -> << >>

RECURSIVE EncodePoints(_, _)
EncodePoints(points, codec) ==
    IF points = << >> THEN << >>
    ELSE EncodePoint(Head(points), codec) \o EncodePoints(Tail(points), codec)

\* unicode.encode(encoding)
encode(val, encoding) ==
    IF encoding.t # "codec" \/ encoding.name \notin {"ascii", "latin1", "utf8"}
      THEN Raise("LookupError")
    ELSE IF \E i \in 1..Len(val.s) : EncodePoint(val.s[i], encoding.name) = << >>
      THEN Raise("UnicodeEncodeError")
    ELSE Ok(StrV(EncodePoints(val.s, encoding.name)))

\* str.decode('ascii')
decode_ascii(val) ==
    IF \E i \in 1..Len(val.s) : val.s[i] = "h"
      THEN Raise("UnicodeDecodeError")
      ELSE Ok(UnicodeV(val.s))

\* len(val)
len(val) ==
    IF val.t \in {"str", "unicode"} THEN Ok(IntV(Len(val.s))) ELSE Raise("TypeError")

\* truth value of a configured bound: None and 0 are false
Truthy(v) == v # NoneV /\ ~(v.t \in {"int", "float"} /\ v.n = 0)

(* the decimal module *)

Digits == << "0", "1", "2", "3", "4", "5", "6", "7", "8", "9" >>

DigitOf(c) == CHOOSE k \in 0..9 : Digits[k + 1] = c

RECURSIVE DigitsToNat(_)
DigitsToNat(s) ==
    IF s = << >> THEN 0
    ELSE 10 * DigitsToNat(SubSeq(s, 1, Len(s) - 1)) + DigitOf(s[Len(s)])

RECURSIVE NatToDigits(_)
NatToDigits(n) ==
    IF n < 10 THEN << Digits[n + 1] >>
    ELSE NatToDigits(n \div 10) \o << Digits[(n % 10) + 1] >>

RECURSIVE Zeros(_)
Zeros(k) == IF k <= 0 THEN << >> ELSE << "0" >> \o Zeros(k - 1)

\* Decimal(text): sign, digits, at most one point
ParseDecimal(s) ==
    LET neg  == s # << >> /\ s[1] = "-"
        body == IF neg THEN Tail(s) ELSE s
        dots == { i \in 1..Len(body) : body[i] = "." }
        dot  == IF dots = {} THEN Len(body) + 1 ELSE CHOOSE i \in dots : TRUE
        ip   == SubSeq(body, 1, dot - 1)
        fp   == SubSeq(body, dot + 1, Len(body))
    IN  IF \/ Cardinality(dots) > 1
           \/ ip \o fp = << >>
           \/ \E i \in 1..Len(ip \o fp) : (ip \o fp)[i] \notin Range(Digits)
          THEN Raise("InvalidOperation")
          ELSE Ok(DecV(neg, DigitsToNat(ip \o fp), Len(fp)))

\* str(d) for a Decimal d (plain notation: at most 6 fractional digits)
DecimalStr(d) ==
    LET ds     == NatToDigits(d.coef)
        padded == Zeros(d.digits + 1 - Len(ds)) \o ds
        ip     == SubSeq(padded, 1, Len(padded) - d.digits)
        fp     == SubSeq(padded, Len(padded) - d.digits + 1, Len(padded))
    IN  StrV((IF d.neg THEN << "-" >> ELSE << >>)
               \o ip \o (IF d.digits > 0 THEN << "." >> \o fp ELSE << >>))

\* str(val)
str(val) ==
    CASE val.t = "Decimal" -> DecimalStr(val)
      [] val.t = "int"     -> DecimalStr(DecV(val.n < 0,
                                 IF val.n < 0 THEN -val.n ELSE val.n, 0))
      [] OTHER             -> val

\* Decimal(val)
Decimal(val) ==
    CASE val.t = "Decimal" -> Ok(val)
      [] val.t = "int"     -> Ok(DecV(val.n < 0, IF val.n < 0 THEN -val.n ELSE val.n, 0))
      [] val.t \in {"str", "unicode"} -> ParseDecimal(val.s)
      [] OTHER             -> Raise("TypeError")

\* the number d stands for, in units of 10^(-k), for k >= d.digits
Scaled(d, k) == (IF d.neg THEN -1 ELSE 1) * d.coef * 10^(k - d.digits)

MaxOf(a, b) == IF a >= b THEN a ELSE b

\* Decimal.__lt__
DecLess(a, b) ==
    LET k == MaxOf(a.digits, b.digits) IN Scaled(a, k) < Scaled(b, k)

\* Decimal.__eq__
DecEq(a, b) ==
    LET k == MaxOf(a.digits, b.digits) IN Scaled(a, k) = Scaled(b, k)

\* a quantize that rounds toward zero
quantize_down(d, exp) ==
    IF d.digits <= exp.digits
      THEN DecV(d.neg, d.coef * 10^(exp.digits - d.digits), exp.digits)
      ELSE DecV(d.neg, d.coef \div 10^(d.digits - exp.digits), exp.digits)

\* Decimal.quantize(exp), default context: ROUND_HALF_EVEN
quantize(d, exp) ==
    IF d.digits <= exp.digits
      THEN DecV(d.neg, d.coef * 10^(exp.digits - d.digits), exp.digits)
      ELSE LET unit == 10^(d.digits - exp.digits)
               q    == d.coef \div unit
               r    == d.coef % unit
           IN  DecV(d.neg,
                    IF 2 * r > unit \/ (2 * r = unit /\ q % 2 = 1) THEN q + 1 ELSE q,
                    exp.digits)

(* converter construction: lines 101-130 and the init methods *)

\* a float: n * 10^(-digits)
FloatV(n, digits) == [t |-> "float", n |-> n, digits |-> digits]

\* float(val)
float(val) ==
    CASE val.t = "int"   -> Ok(FloatV(val.n, 0))
      [] val.t = "float" -> Ok(val)
      [] val.t = "str" -> IF ParseDecimal(val.s).err # "" THEN Raise("ValueError")
                          ELSE LET d == ParseDecimal(val.s).val
                               IN  Ok(FloatV(Scaled(d, d.digits), d.digits))
      [] OTHER -> Raise("TypeError")

\* isinstance(val, (int, long))
IsInt(val) == val.t = "int"

\* a converter object before init has set anything
BlankConverter(cls) ==
    [cls |-> cls, max_len |-> NoneV, encoding |-> NoneV, min_val |-> NoneV,
     max_val |-> NoneV, precision |-> NoneV, scale |-> NoneV, exp |-> NoneV]

\* keyargs.pop(k, default): the value
Pop(keyargs, k, default) == IF k \in DOMAIN keyargs THEN keyargs[k] ELSE default

\* keyargs.pop(k, default): what stays in keyargs
Without(keyargs, k) == [n \in (DOMAIN keyargs) \ {k} |-> keyargs[n]]

\* what an init method leaves: the failure raised, the converter, keyargs
Inited(err, conv, keyargs) == [err |-> err, conv |-> conv, keyargs |-> keyargs]

\* lines 101-111
get_converter_type_by_py_type(py_type) ==
    CASE py_type = "bool"     -> "BoolConverter"
      [] py_type = "unicode"  -> "UnicodeConverter"
      [] py_type = "str"      -> "StrConverter"
      [] py_type \in {"int", "long"} -> "IntConverter"
      [] py_type = "float"    -> "RealConverter"
      [] py_type = "Decimal"  -> "DecimalConverter"
      [] py_type = "buffer"   -> "BlobConverter"
      [] py_type = "datetime" -> "DatetimeConverter"
      [] py_type = "date"     -> "DateConverter"
      [] OTHER                -> "TypeError"

\* init of BoolConverter, BlobConverter, DatetimeConverter, DateConverter
PlainConverter_init(conv, a, keyargs) ==
    IF a.args # << >> THEN Inited("TypeError", conv, keyargs)
    ELSE Inited("", conv, keyargs)

\* lines 152-160
BasestringConverter_init(conv, a, keyargs) ==
    IF a.args # << >>
      THEN IF Len(a.args) > 1 THEN Inited("TypeError", conv, keyargs)
           ELSE IF ~IsInt(a.args[1]) THEN Inited("TypeError", conv, keyargs)
           ELSE Inited("", [conv EXCEPT !.max_len = a.args[1]], keyargs)
      ELSE Inited("", [conv EXCEPT !.max_len = NoneV], keyargs)

\* lines 186-188
StrConverter_init(conv, a, keyargs) ==
    LET b == BasestringConverter_init(conv, a, keyargs) IN
      IF b.err # "" THEN b
      ELSE Inited("", [b.conv EXCEPT !.encoding =
                          Pop(b.keyargs, "encoding", CodecV("latin1"))],
                  Without(b.keyargs, "encoding"))

\* lines 203-213
IntConverter_init(conv, a, keyargs) ==
    IF a.args # << >> THEN Inited("TypeError", conv, keyargs)
    ELSE LET min_val == Pop(keyargs, "min", NoneV)
             k1      == Without(keyargs, "min")
             max_val == Pop(k1, "max", NoneV)
             k2      == Without(k1, "max")
         IN  IF min_val # NoneV /\ ~IsInt(min_val) THEN Inited("TypeError", conv, k1)
             ELSE IF max_val # NoneV /\ ~IsInt(max_val) THEN Inited("TypeError", conv, k2)
             ELSE Inited("", [conv EXCEPT !.min_val = min_val, !.max_val = max_val], k2)

\* lines 228-242
RealConverter_init(conv, a, keyargs) ==
    IF a.args # << >> THEN Inited("TypeError", conv, keyargs)
    ELSE LET min_arg == Pop(keyargs, "min", NoneV)
             k1      == Without(keyargs, "min")
             min_f   == IF min_arg = NoneV THEN Ok(NoneV) ELSE float(min_arg)
             max_arg == Pop(k1, "max", NoneV)
             k2      == Without(k1, "max")
             max_f   == IF max_arg = NoneV THEN Ok(NoneV) ELSE float(max_arg)
         IN  IF min_f.err # "" THEN Inited("TypeError", conv, k1)
             ELSE IF max_f.err # "" THEN Inited("TypeError", conv, k2)
             ELSE Inited("", [conv EXCEPT !.min_val = min_f.val,
                                          !.max_val = max_f.val], k2)

\* lines 261-298
DecimalConverter_init(conv, a, keyargs) ==
    LET args      == a.args
        precision == IF args # << >> THEN args[1]
                     ELSE Pop(keyargs, "precision", IntV(12))
        k1        == IF args # << >> THEN keyargs ELSE Without(keyargs, "precision")
        scale     == IF Len(args) = 2 THEN args[2] ELSE Pop(k1, "scale", IntV(2))
        k2        == IF Len(args) = 2 THEN k1 ELSE Without(k1, "scale")
        min_arg   == Pop(k2, "min", NoneV)
        k3        == Without(k2, "min")
        min_d     == IF min_arg = NoneV THEN Ok(NoneV) ELSE Decimal(min_arg)
        max_arg   == Pop(k3, "max", NoneV)
        k4        == Without(k3, "max")
        max_d     == IF max_arg = NoneV THEN Ok(NoneV) ELSE Decimal(max_arg)
    IN  IF Len(args) > 2 THEN Inited("TypeError", conv, keyargs)
        ELSE IF ~IsInt(precision) THEN Inited("TypeError", conv, k1)
        ELSE IF precision.n <= 0 THEN Inited("TypeError", conv, k1)
        ELSE IF ~IsInt(scale) THEN Inited("TypeError", conv, k2)
        ELSE IF scale.n <= 0 THEN Inited("TypeError", conv, k2)
        ELSE IF scale.n > precision.n THEN Inited("ValueError", conv, k2)
        ELSE IF min_d.err # "" THEN Inited(min_d.err, conv, k3)
        ELSE IF max_d.err # "" THEN Inited(max_d.err, conv, k4)
        ELSE Inited("", [conv EXCEPT !.precision = precision, !.scale = scale,
                                     !.exp = DecV(FALSE, 1, scale.n),
                                     !.min_val = min_d.val, !.max_val = max_d.val],
                    k4)

\* converter.init(keyargs), by class
init(conv, a, keyargs) ==
    CASE conv.cls \in {"UnicodeConverter"} -> BasestringConverter_init(conv, a, keyargs)
      [] conv.cls = "StrConverter"     -> StrConverter_init(conv, a, keyargs)
      [] conv.cls = "IntConverter"     -> IntConverter_init(conv, a, keyargs)
      [] conv.cls = "RealConverter"    -> RealConverter_init(conv, a, keyargs)
      [] conv.cls = "DecimalConverter" -> DecimalConverter_init(conv, a, keyargs)
      [] OTHER                         -> PlainConverter_init(conv, a, keyargs)

\* a Converter.__init__ that does not look at what init left in keyargs
Converter__init__lenient(cls, a) ==
    LET i == init(BlankConverter(cls), a, a.keyargs) IN
      IF i.err # "" THEN [err |-> i.err, conv |-> NoConverter]
      ELSE [err |-> "", conv |-> i.conv]

\* lines 125-130 (183-185 and 258-260 for StrConverter and DecimalConverter):
\* keyargs = attr.keyargs.copy(); converter.init(keyargs);
\* for option in keyargs: raise TypeError('Unknown option')
Converter__init__(cls, a) ==
    LET i == init(BlankConverter(cls), a, a.keyargs) IN
      IF i.err # "" THEN [err |-> i.err, conv |-> NoConverter]
      ELSE IF DOMAIN i.keyargs # {} THEN [err |-> "TypeError", conv |-> NoConverter]
      ELSE [err |-> "", conv |-> i.conv]

\* lines 116-117
get_converter_by_attr(a) ==
    LET cls == get_converter_type_by_py_type(a.py_type) IN
      IF cls = "TypeError" THEN [err |-> "TypeError", conv |-> NoConverter]
      ELSE Converter__init__(cls, a)

(* validate, py2sql, sql2py *)

\* a BasestringConverter.validate that enforces a max_len of 0 as well
BasestringConverter_validate_zero(conv, val) ==
    IF len(val).err # "" THEN Raise(len(val).err)
    ELSE LET val_len == len(val).val.n IN
      IF conv.max_len # NoneV /\ val_len > conv.max_len.n THEN Raise("ValueError")
      ELSE IF val_len = 0 THEN Raise("ValueError")
      ELSE Ok(val)

\* lines 161-168
BasestringConverter_validate(conv, val) ==
    IF len(val).err # "" THEN Raise(len(val).err)
    ELSE LET val_len == len(val).val.n IN
      IF Truthy(conv.max_len) /\ val_len > conv.max_len.n THEN Raise("ValueError")
      ELSE IF val_len = 0 THEN Raise("ValueError")
      ELSE Ok(val)

\* lines 175-180
UnicodeConverter_validate(conv, val) ==
    IF val = NoneV THEN BasestringConverter_validate(conv, val)
    ELSE IF val.t = "str"
      THEN IF decode_ascii(val).err # "" THEN Raise(decode_ascii(val).err)
           ELSE BasestringConverter_validate(conv, decode_ascii(val).val)
    ELSE IF val.t # "unicode" THEN Raise("TypeError")
    ELSE BasestringConverter_validate(conv, val)

\* lines 189-195
StrConverter_validate(conv, val) ==
    IF val = NoneV THEN BasestringConverter_validate(conv, val)
    ELSE IF val.t = "str" THEN BasestringConverter_validate(conv, val)
    ELSE IF val.t = "unicode"
      THEN IF encode(val, conv.encoding).err # ""
             THEN Raise(encode(val, conv.encoding).err)
             ELSE BasestringConverter_validate(conv, encode(val, conv.encoding).val)
    ELSE Raise("TypeError")

\* an IntConverter.validate whose comparisons are not strict
IntConverter_validate_exclusive(conv, val) ==
    IF ~IsInt(val) THEN Raise("TypeError")
    ELSE IF Truthy(conv.min_val) /\ val.n <= conv.min_val.n THEN Raise("ValueError")
    ELSE IF Truthy(conv.max_val) /\ val.n >= conv.max_val.n THEN Raise("ValueError")
    ELSE Ok(val)

\* lines 214-223
IntConverter_validate(conv, val) ==
    IF ~IsInt(val) THEN Raise("TypeError")
    ELSE IF Truthy(conv.min_val) /\ val.n < conv.min_val.n THEN Raise("ValueError")
    ELSE IF Truthy(conv.max_val) /\ val.n > conv.max_val.n THEN Raise("ValueError")
    ELSE Ok(val)

\* lines 299-303; lines 304-309 are never reached: both branches above them
\* return or raise
DecimalConverter_validate(conv, val) ==
    IF val.t = "Decimal" THEN Ok(val)
    ELSE IF Decimal(val).err = "InvalidOperation" THEN Raise("TypeError")
    ELSE Decimal(val)

\* a py2sql that rounds toward zero
DecimalConverter_py2sql_down(conv, val) ==
    LET d == IF val.t # "Decimal" THEN Decimal(val) ELSE Ok(val) IN
      IF d.err # "" THEN Raise(d.err)
      ELSE IF conv.exp # NoneV THEN Ok(str(quantize_down(d.val, conv.exp)))
      ELSE Ok(str(d.val))

\* lines 316-320
DecimalConverter_py2sql(conv, val) ==
    LET d == IF val.t # "Decimal" THEN Decimal(val) ELSE Ok(val) IN
      IF d.err # "" THEN Raise(d.err)
      ELSE IF conv.exp # NoneV THEN Ok(str(quantize(d.val, conv.exp)))
      ELSE Ok(str(d.val))

\* lines 310-315
DecimalConverter_sql2py(conv, val) ==
    LET d == Decimal(str(val)) IN
      IF d.err # "" THEN Ok(val)
      ELSE IF conv.exp # NoneV THEN Ok(quantize(d.val, conv.exp))
      ELSE Ok(d.val)

\* converter.validate(val), for the classes modelled
validate(conv, val) ==
    CASE conv.cls = "UnicodeConverter" -> UnicodeConverter_validate(conv, val)
      [] conv.cls = "StrConverter"     -> StrConverter_validate(conv, val)
      [] conv.cls = "IntConverter"     -> IntConverter_validate(conv, val)
      [] conv.cls = "DecimalConverter" -> DecimalConverter_validate(conv, val)

(* the attributes and values the converters are given *)

PyTypes == { "bool", "unicode", "str", "int", "float", "Decimal", "buffer",
             "datetime", "date", "list" }

OptionNames == { "min", "max", "precision", "scale", "encoding", "unknown" }

\* sequences over S of length at most n
SeqsUpTo(S, n) == UNION { [1..k -> S] : k \in 0..n }

NotANumber == StrV(<< "a" >>)

\* values given for option name of an attribute of type py_type
OptionValues(py_type, name) ==
    CASE py_type = "int" /\ name \in {"min", "max"} ->
             { IntV(i) : i \in {-1, 0, 1, MaxInt - 1} } \cup { NotANumber }
      [] py_type = "float" /\ name \in {"min", "max"} ->
             { IntV(0), IntV(1), NotANumber }
      [] py_type = "Decimal" /\ name = "min" -> { IntV(1), NotANumber }
      [] py_type = "Decimal" /\ name = "max" -> { IntV(2) }
      [] py_type = "Decimal" /\ name = "precision" -> { IntV(0), IntV(1), IntV(5) }
      [] py_type = "Decimal" /\ name = "scale" ->
             { IntV(k) : k \in 0..MaxScale } \cup { NotANumber }
      [] py_type = "str" /\ name = "encoding" -> { CodecV("ascii"), CodecV("utf8") }
      [] OTHER -> { IntV(1) }

\* attr.keyargs of an attribute of type py_type
KeyargsOf(py_type) ==
    UNION { { k \in [names -> UNION { OptionValues(py_type, n) : n \in names }] :
               \A n \in names : k[n] \in OptionValues(py_type, n) } :
            names \in SUBSET OptionNames }

\* attr.args of an attribute of type py_type
ArgsOf(py_type) ==
    CASE py_type \in {"str", "unicode"} ->
             { << >>, << NotANumber >>, << IntV(1), IntV(1) >> }
               \cup { << IntV(n) >> : n \in -1..MaxLen }
      [] py_type = "Decimal" ->
             { << >>, << IntV(5) >>, << IntV(1), IntV(2) >>,
               << IntV(5), IntV(MaxScale) >>, << IntV(5), IntV(2), IntV(1) >> }
      [] OTHER -> { << >>, << IntV(1) >> }

Attrs ==
    UNION { { [py_type |-> ty, args |-> a, keyargs |-> k] :
                a \in ArgsOf(ty), k \in KeyargsOf(ty) } : ty \in PyTypes }

\* Decimal values: half-way cases, cases that carry, and the spec's 3.005
DecimalInputs ==
    { DecV(FALSE, coef, digits) :
        coef \in {0, 5, 15, 25, 995, 3005}, digits \in 0..(MaxScale + 1) }
      \cup { DecV(TRUE, coef, digits) :
                coef \in {1, 15}, digits \in 0..(MaxScale + 1) }

\* values handed to validate of a converter of class cls
ValuesFor(cls) ==
    CASE cls = "IntConverter" ->
             { IntV(i) : i \in -2..MaxInt } \cup { NoneV, NotANumber }
      [] cls \in {"UnicodeConverter", "StrConverter"} ->
             { StrV(b) : b \in SeqsUpTo({"a", "h"}, MaxLen) }
               \cup { UnicodeV(c) : c \in SeqsUpTo({"a", "e", "w"}, MaxLen) }
               \cup { NoneV, IntV(1) }
      [] cls = "DecimalConverter" ->
             DecimalInputs \cup { IntV(0), IntV(2), NotANumber, NoneV,
                                  StrV(<< "1", ".", "5" >>) }
      [] OTHER -> {}

(* converter actions *)

\* a schema attribute is declared
ConvInit ==
    /\ InitBridge
    /\ InitPool
    /\ create_db = FALSE
    /\ fileExists = FALSE
    /\ attr \in Attrs
    /\ converter = NoConverter
    /\ cop = ""
    /\ carg = NoneV
    /\ cret = NoneV
    /\ cerr = ""

\* get_converter_by_attr(attr)
GetConverterByAttr ==
    /\ cop = ""
    /\ LET r == get_converter_by_attr(attr) IN
         /\ converter' = r.conv
         /\ cerr' = r.err
    /\ cop' = "get_converter_by_attr"
    /\ UNCHANGED << attr, carg, cret >>
    /\ UNCHANGED << loadVars, bridgeVars, memVars, poolVars >>

\* converter.validate(val)
Validate(val) ==
    /\ converter # NoConverter
    /\ val \in ValuesFor(converter.cls)
    /\ LET r == validate(converter, val) IN
         /\ cret' = r.val
         /\ cerr' = r.err
    /\ cop' = "validate"
    /\ carg' = val
    /\ UNCHANGED << attr, converter >>
    /\ UNCHANGED << loadVars, bridgeVars, memVars, poolVars >>

\* converter.py2sql(val) of a DecimalConverter: val the value validate or
\* sql2py has just returned
Py2sql(val) ==
    /\ converter # NoConverter
    /\ converter.cls = "DecimalConverter"
    /\ cop \in {"validate", "sql2py"}
    /\ cerr = ""
    /\ val = cret
    /\ LET r == DecimalConverter_py2sql(converter, val) IN
         /\ cret' = r.val
         /\ cerr' = r.err
    /\ cop' = "py2sql"
    /\ carg' = val
    /\ UNCHANGED << attr, converter >>
    /\ UNCHANGED << loadVars, bridgeVars, memVars, poolVars >>

\* converter.sql2py(val) of a DecimalConverter, val the text py2sql has just
\* produced for the column
Sql2py ==
    /\ converter # NoConverter
    /\ converter.cls = "DecimalConverter"
    /\ cop = "py2sql"
    /\ cerr = ""
    /\ LET r == DecimalConverter_sql2py(converter, cret) IN
         /\ cret' = r.val
         /\ cerr' = r.err
    /\ cop' = "sql2py"
    /\ carg' = cret
    /\ UNCHANGED << attr, converter >>
    /\ UNCHANGED << loadVars, bridgeVars, memVars, poolVars >>

(* --------------------------- specification ---------------------------- *)

Next ==
    \/ LoadConMethod
    \/ LoadConProperty
    \/ LoadCurMethod
    \/ LoadCurProperty
    \/ StartThread
    \/ \E t \in Threads : GetPool(t)
    \/ \E t \in Threads, cls \in {"con", "cur"}, name \in ConUsed \cup CurUsed,
          access \in {"call", "get", "set"} : FacadeCall(t, cls, name, access)
    \/ \E t \in Threads : Wake(t)
    \/ WorkerGet
    \/ \E o \in {"val", "cursor", "exc", "base"} : WorkerFinish(o)
    \/ WorkerRelease
    \/ Shutdown
    \/ \E t \in Threads : Interrupt(t)
    \/ \E t \in Threads : MemPoolLocked(t)

Spec == Init /\ [][Next]_vars

PoolNext ==
    \/ \E t \in Threads, ok \in BOOLEAN : PoolConnect(t, ok)
    \/ \E t \in Threads, ok \in BOOLEAN : InitConnection(t, ok)
    \/ \E t \in Threads, con \in 1..MaxConns, ok \in BOOLEAN : PoolRelease(t, con, ok)
    \/ \E t \in Threads, con \in 1..MaxConns : PoolClose(t, con)
    \/ RemoveFile

PoolSpec == PoolInit /\ [][PoolNext]_vars

ConvNext ==
    \/ GetConverterByAttr
    \/ \E val \in ValuesFor(converter.cls) : Validate(val)
    \/ \E val \in { cret } : Py2sql(val)
    \/ Sql2py

ConvSpec == ConvInit /\ [][ConvNext]_vars

\* the worker thread is scheduled, the module body runs to its end, and a
\* caller whose lock was released gets to acquire it
FairSpec ==
    /\ Init
    /\ [][Next]_vars
    /\ WF_vars(LoadConMethod)
    /\ WF_vars(LoadConProperty)
    /\ WF_vars(LoadCurMethod)
    /\ WF_vars(LoadCurProperty)
    /\ WF_vars(StartThread)
    /\ WF_vars(WorkerGet)
    /\ WF_vars(\E o \in {"val", "cursor", "exc", "base"} : WorkerFinish(o))
    /\ WF_vars(WorkerRelease)
    /\ \A t \in Threads : WF_vars(Wake(t))
    /\ \A t \in Threads : WF_vars(MemPoolLocked(t))

(* ------------------------------ claims -------------------------------- *)

\* thread t is back from a marshalled call
Returned(t) == pc[t] # "acquire" /\ call[t].id # 0

\* how often the worker started call c
TimesStarted(c) == Cardinality({ i \in 1..Len(started) : started[i] = c })

\* C1: every marshalled function in progress is run by the worker thread
\* (thread 0), never by a caller thread, and at most one is in progress.
C1_OnlyWorkerExecutes ==
    /\ \A e \in executing : e[2] = 0
    /\ Cardinality(executing) <= 1

\* two callers are blocked in marshalled calls while the worker runs one
C1_Witness ==
    /\ Cardinality({ t \in Threads : pc[t] = "acquire" }) >= 2
    /\ executing # {}

\* what does hold of every state: no call is run more than once, only
\* submitted calls are run, a caller that is back holds the result of its own
\* call, whose function has ended on the worker, and once every caller is
\* back every submitted call was run
EachCallOnceOwnResult ==
    /\ \A c \in CallIds : TimesStarted(c) <= 1
    /\ \A i \in 1..Len(started) :
          \E j \in 1..Len(enqueued) : enqueued[j] = started[i]
    /\ \A t \in Threads :
          Returned(t) =>
             /\ ret[t].of = call[t].id
             /\ TimesStarted(call[t].id) = 1
             /\ outcome[call[t].id] \in {"val", "cursor", "exc"}
             /\ << call[t].id, 0 >> \notin executing
    /\ (\A t \in Threads : pc[t] # "acquire") => Len(started) = Len(enqueued)

\* C2: every call submitted (with no None sentinel put before it) is run,
\* exactly once, and its caller comes back with the result of that call.
C2_AllCallsComplete ==
    \A t \in Threads :
       (pc[t] = "acquire" /\ ~call[t].ahead)
          ~> (/\ Returned(t)
              /\ ret[t].of = call[t].id
              /\ TimesStarted(call[t].id) = 1)

\* C3: the worker starts calls in the order they were put on mem_queue,
\* skipping none, and a call is started only when every call put before it
\* has ended.
C3_FifoExecution ==
    /\ Len(started) <= Len(enqueued)
    /\ \A i \in 1..Len(started) : started[i] = enqueued[i]
    /\ \A e \in executing : e[1] = started[Len(started)]

\* the worker has run one call, runs the second, and a third waits behind it
C3_Witness ==
    /\ Len(started) >= 2
    /\ wpc = "exec"
    /\ Len(mem_queue) >= 1
    /\ mem_queue[1] # NoneItem

\* C4: a caller that is back returned the very value v its function returned
\* on the worker, or raised the very failure its function raised, and never
\* the one for the other; and a failure raised on the worker is handed to
\* the caller to raise (it is in the call's result_holder).
C4_ExactPropagation ==
    \A t \in Threads :
       call[t].id # 0 =>
          /\ Returned(t) =>
                /\ outcome[call[t].id] \in {"val", "cursor"}
                      <=> ret[t] = [kind |-> outcome[call[t].id], of |-> call[t].id]
                /\ outcome[call[t].id] = "exc"
                      <=> ret[t] = [kind |-> "raise", of |-> call[t].id]
          /\ outcome[call[t].id] \in {"exc", "base"} => holder[call[t].id] # << >>

\* C5: a caller blocked in a marshalled call that was put on the queue with
\* no None sentinel put before it eventually leaves the call.
C5_EveryCallReturns ==
    \A t \in Threads :
       (pc[t] = "acquire" /\ ~call[t].ahead) ~> (pc[t] # "acquire")

\* C6: at most one in-memory engine connection is ever made, and every
\* MemPool hands out the same connection facade.
C6_OneSharedConnection ==
    /\ Cardinality(engineCons) <= 1
    /\ Cardinality(pools) <= 1

\* C7: once the module body has run, every allow-listed name is an attribute
\* of its facade class: a marshalled method wrapper forwarding to the member
\* of that name, or a marshalled property of that name.
C7_FacadesComplete ==
    Loaded =>
       /\ \A n \in Range(sqlite_con_methods) : conAttrs[n] = make_wrapper_method(n)
       /\ \A n \in Range(sqlite_con_properties) : conAttrs[n] = make_wrapper_property(n)
       /\ \A n \in Range(sqlite_cur_methods) : curAttrs[n] = make_wrapper_method(n)
       /\ \A n \in Range(sqlite_cur_properties) : curAttrs[n] = make_wrapper_property(n)

\* C8: interrupt puts nothing on the queue, does not block its caller, and
\* leaves the running item, its result_holder and every lock as they were,
\* so the running call completes as any other.
C8_InterruptBypassesBridge ==
    [][\A t \in Threads :
          Interrupt(t) =>
             /\ pc'[t] = "idle"
             /\ UNCHANGED << mem_queue, enqueued, nextId, pc, call, lock,
                             holder, cur, wpc, executing, started >>]_vars

\* interrupt has returned to its caller while the worker is inside an
\* operation whose caller is blocked
C8_Witness ==
    /\ interrupted
    /\ wpc = "exec"
    /\ pc[cur.lock] = "acquire"
    /\ \E t \in Threads : pc[t] = "idle"

\* C9: a release whose rollback fails closes the connection, empties the
\* thread's pool.con and raises the rollback's failure; no connect ever
\* returns a closed connection, and pool.con never holds one.
C9_FailedReleaseDropsConnection ==
    [][/\ \A t \in Threads, con \in 1..MaxConns :
             (PoolRelease(t, con, FALSE) /\ con = poolCon[Slot(t)]) =>
                /\ conns'[con].state = "closed"
                /\ poolCon'[Slot(t)] = 0
                /\ pret'[t] = [op |-> "release", kind |-> "raise",
                               con |-> con, err |-> "rollback"]
       /\ \A t \in Threads :
             /\ (pret'[t].op = "connect" /\ pret'[t].kind = "con")
                   => conns'[pret'[t].con].state = "open"
             /\ poolCon'[Slot(t)] # 0 => conns'[poolCon'[Slot(t)]].state = "open"
      ]_vars

\* after a failed release a thread has connected again and holds a new
\* connection, the old one being closed
C9_Witness ==
    \E t \in Threads, old \in 1..Len(conns) :
       /\ conns[old].owner = t
       /\ conns[old].state = "closed"
       /\ pret[t].op = "connect"
       /\ pret[t].kind = "con"
       /\ pret[t].con # old
       /\ poolCon[t] = pret[t].con

\* C10: connect returns the calling thread's cached connection whenever it
\* has one, opening nothing, and what connect returns to a thread was
\* opened by that thread.
C10_OwnCachedConnection ==
    [][/\ \A t \in Threads, ok \in BOOLEAN :
             (PoolConnect(t, ok) /\ poolCon[Slot(t)] # 0) =>
                /\ pret'[t] = [op |-> "connect", kind |-> "con",
                               con |-> poolCon[Slot(t)], err |-> ""]
                /\ UNCHANGED << poolCon, conns >>
       /\ \A t \in Threads :
             (pret'[t].op = "connect" /\ pret'[t].kind = "con")
                => conns'[pret'[t].con].owner = t
      ]_vars

\* two threads hold a connection each, each its own
C10_Witness ==
    \E t, u \in Threads :
       /\ t # u
       /\ pret[t].op = "connect" /\ pret[t].kind = "con"
       /\ pret[u].op = "connect" /\ pret[u].kind = "con"
       /\ pret[t].con # pret[u].con
       /\ poolCon[t] = pret[t].con
       /\ poolCon[u] = pret[u].con

\* converter.validate(carg) has just been called on a converter of class cls
Validated(cls) == cop = "validate" /\ converter.cls = cls

\* C11: validate of a DecimalConverter, given a value that coerces to the
\* decimal d, raises ValueError when d is below the configured min or above
\* the configured max, and otherwise (d equal to a bound included) returns a
\* decimal equal to d.
C11_DecimalRangeChecked ==
    (Validated("DecimalConverter") /\ Decimal(carg).err = "") =>
       LET d     == Decimal(carg).val
           below == converter.min_val # NoneV /\ DecLess(d, converter.min_val)
           above == converter.max_val # NoneV /\ DecLess(converter.max_val, d)
       IN  IF below \/ above
             THEN cerr = "ValueError"
             ELSE cerr = "" /\ cret.t = "Decimal" /\ DecEq(cret, d)

\* C12: validate of an IntConverter, given an int v, raises ValueError when v
\* is below a nonzero configured min or above a nonzero configured max, and
\* otherwise (v equal to a bound, or the bound 0 or absent) returns v. With
\* min=1, max=10: 0 raises, 10 returns 10, 11 raises.
C12_IntRangeInclusive ==
    (Validated("IntConverter") /\ carg.t = "int") =>
       LET v     == carg.n
           lo    == converter.min_val
           hi    == converter.max_val
           below == lo # NoneV /\ lo.n # 0 /\ v < lo.n
           above == hi # NoneV /\ hi.n # 0 /\ v > hi.n
       IN  /\ (below \/ above) => (cerr = "ValueError" /\ cret = NoneV)
           /\ ~(below \/ above) => (cerr = "" /\ cret = carg)
           /\ (lo = IntV(1) /\ hi = IntV(10)) =>
                 /\ v = 0  => cerr = "ValueError"
                 /\ v = 10 => (cerr = "" /\ cret = IntV(10))
                 /\ v = 11 => cerr = "ValueError"

\* an IntConverter with min=1, max=10 has returned 10 for 10
C12_Witness ==
    /\ Validated("IntConverter")
    /\ converter.min_val = IntV(1)
    /\ converter.max_val = IntV(10)
    /\ carg = IntV(10)
    /\ cret = IntV(10)
    /\ cerr = ""

\* the value a text converter measures: carg as a string of the converter's
\* own type (a str decoded for UnicodeConverter, a unicode encoded for
\* StrConverter); err is set when carg is no string or cannot be coerced
CoercedText ==
    IF carg.t \notin {"str", "unicode"} THEN Raise("TypeError")
    ELSE IF converter.cls = "UnicodeConverter"
      THEN IF carg.t = "str" THEN decode_ascii(carg) ELSE Ok(carg)
      ELSE IF carg.t = "unicode" THEN encode(carg, converter.encoding) ELSE Ok(carg)

TextValidated ==
    /\ cop = "validate"
    /\ converter.cls \in {"UnicodeConverter", "StrConverter"}
    /\ CoercedText.err = ""

\* C13 as stated: with max length n configured, a value longer than n raises
\* ValueError, a (non-empty) value of length exactly n is returned, and the
\* empty string raises ValueError whatever max is configured.
C13_TextLengthChecked ==
    TextValidated =>
       LET k == Len(CoercedText.val.s) IN
         /\ converter.max_len # NoneV =>
               /\ k > converter.max_len.n => cerr = "ValueError"
               /\ (k = converter.max_len.n /\ k > 0) =>
                     (cerr = "" /\ cret = CoercedText.val)
         /\ k = 0 => cerr = "ValueError"

\* C13 amended: with a nonzero max length n configured, a value longer than n
\* raises ValueError and a non-empty value of length at most n is returned;
\* with max 0 or no max only the empty string is refused; the empty string
\* raises ValueError whatever max is configured. Lengths are those of the
\* value as a string of the converter's own type.
C13_TextLengthCheckedNonzeroMax ==
    TextValidated =>
       LET k == Len(CoercedText.val.s)
           n == converter.max_len
       IN  /\ (n # NoneV /\ n.n # 0) =>
                 /\ k > n.n => cerr = "ValueError"
                 /\ (0 < k /\ k <= n.n) => (cerr = "" /\ cret = CoercedText.val)
           /\ (n = NoneV \/ n.n = 0) =>
                 (k > 0 => (cerr = "" /\ cret = CoercedText.val))
           /\ k = 0 => cerr = "ValueError"

\* a StrConverter has returned the encoding of a unicode value whose encoded
\* length is exactly the configured max
C13_Witness ==
    /\ Validated("StrConverter")
    /\ carg.t = "unicode"
    /\ cerr = ""
    /\ cret.t = "str"
    /\ converter.max_len # NoneV
    /\ Len(cret.s) = converter.max_len.n
    /\ Len(cret.s) > Len(carg.s)

\* option names the init of a converter class pops, whatever the attribute
ConsumedByType(cls) ==
    CASE cls \in {"IntConverter", "RealConverter"} -> { "min", "max" }
      [] cls = "StrConverter"     -> { "encoding" }
      [] cls = "DecimalConverter" -> { "min", "max", "precision", "scale" }
      [] OTHER                    -> {}

\* option names the init of the class pops for this attribute
ConsumedFor(cls, a) ==
    IF cls # "DecimalConverter" THEN ConsumedByType(cls)
    ELSE { "min", "max" }
           \cup (IF a.args = << >> THEN { "precision" } ELSE {})
           \cup (IF Len(a.args) # 2 THEN { "scale" } ELSE {})

\* C14: get_converter_by_attr raises, building no converter, whenever the
\* attribute's options hold a name its converter class does not consume, and
\* a converter is built only when every option was consumed.
C14_UnknownOptionRejected ==
    LET cls == get_converter_type_by_py_type(attr.py_type) IN
      /\ cop = "get_converter_by_attr" =>
            /\ ~(DOMAIN attr.keyargs \subseteq ConsumedByType(cls)) =>
                  (cerr # "" /\ converter = NoConverter)
            /\ converter # NoConverter <=> cerr = ""
      /\ converter # NoConverter =>
            DOMAIN attr.keyargs \subseteq ConsumedFor(cls, attr)

\* building a str converter with a known and an unknown option has failed
C14_Witness ==
    /\ cop = "get_converter_by_attr"
    /\ attr.py_type = "str"
    /\ DOMAIN attr.keyargs = { "encoding", "unknown" }
    /\ cerr = "TypeError"
    /\ converter = NoConverter

\* |a - b| in units of 10^(-k)
Distance(a, b, k) ==
    IF Scaled(a, k) >= Scaled(b, k) THEN Scaled(a, k) - Scaled(b, k)
                                    ELSE Scaled(b, k) - Scaled(a, k)

\* C15: py2sql of a decimal v gives the canonical text of a decimal with
\* exactly scale fractional digits that is within half a unit of the last
\* digit of v; sql2py of that text gives a decimal equal to it with scale
\* fractional digits; and py2sql of what sql2py returned gives the same text.
C15_DecimalQuantizedRoundTrip ==
    [][(converter'.cls = "DecimalConverter" /\ cerr' = "") =>
          /\ (cop' = "py2sql" /\ carg'.t = "Decimal") =>
                LET q == ParseDecimal(cret'.s)
                    k == MaxOf(carg'.digits, converter'.scale.n)
                IN  /\ cret'.t = "str"
                    /\ q.err = ""
                    /\ q.val.digits = converter'.scale.n
                    /\ DecimalStr(q.val) = cret'
                    /\ 2 * Distance(q.val, carg', k) <= 10^(k - converter'.scale.n)
          /\ cop' = "sql2py" =>
                /\ cret'.t = "Decimal"
                /\ cret'.digits = converter'.scale.n
                /\ DecEq(cret', ParseDecimal(carg'.s).val)
          /\ (cop = "sql2py" /\ cop' = "py2sql" /\ carg' = cret) =>
                cret' = carg
      ]_vars

\* with precision=5, scale=2 the text "3.00" was decoded and encoded again
C15_Witness ==
    /\ converter.cls = "DecimalConverter"
    /\ converter.precision = IntV(5)
    /\ converter.scale = IntV(2)
    /\ cop = "py2sql"
    /\ carg = DecV(FALSE, 300, 2)
    /\ cret = StrV(<< "3", ".", "0", "0" >>)

\* where work item c is: 0 CREATED (not yet put), 1 QUEUED, 2 RUNNING on the
\* worker, 3 COMPLETED (its function has ended)
Stage(c) ==
    IF c \notin Range(enqueued) THEN 0
    ELSE IF c \notin Range(started) THEN 1
    ELSE IF << c, 0 >> \in executing THEN 2
    ELSE 3

\* how often item c is, or was, on the queue
TimesEnqueued(c) == Cardinality({ i \in 1..Len(enqueued) : enqueued[i] = c })

\* C16: a result_holder never holds more than one entry; it gets its entry
\* from the worker, while the item is running and its caller's lock is still
\* held; a lock is released only by the worker, for the item it has just
\* written the result of; no item goes back a stage, is put twice or is run
\* twice; and a caller that wakes finds exactly one entry.
C16_ResultWrittenOnceBeforeSignal ==
    [][/\ \A c \in CallIds :
             /\ Len(holder'[c]) <= 1
             /\ Len(holder'[c]) > Len(holder[c]) =>
                   /\ wpc = "exec" /\ cur.holder = c /\ Stage(c) = 2
                   /\ holder'[c][1].kind \in {"val", "cursor", "exc"}
                   /\ holder'[c][1].kind = outcome'[c]
                   /\ lock[cur.lock] = "held" /\ lock' = lock
             /\ Stage(c)' >= Stage(c)
             /\ TimesEnqueued(c)' <= 1
             /\ TimesStarted(c)' <= 1
       /\ \A t \in Threads :
             /\ (lock[t] = "held" /\ lock'[t] = "free") =>
                   /\ wpc = "release" /\ cur.lock = t
                   /\ call[t].id = cur.holder
                   /\ Len(holder[cur.holder]) = 1
                   /\ holder' = holder
             /\ (pc[t] = "acquire" /\ pc'[t] # "acquire") =>
                   Len(holder[call[t].id]) = 1
      ]_vars

\* a caller has woken to the failure the worker caught for its call
C16_Witness ==
    \E t \in Threads :
       /\ Returned(t)
       /\ ret[t] = [kind |-> "raise", of |-> call[t].id]
       /\ holder[call[t].id] = << [kind |-> "exc", of |-> call[t].id] >>
       /\ Stage(call[t].id) = 3

\* C17: the worker's loop is never left except on the sentinel: the worker
\* thread does not end because of what a work item did, and when it has
\* stopped the sentinel was put and taken and nothing is being executed.
C17_WorkerStopsOnlyOnSentinel ==
    /\ wpc # "dead"
    /\ wpc = "stopped" =>
          /\ shutdown
          /\ \A i \in 1..Len(mem_queue) : mem_queue[i] # NoneItem
          /\ executing = {}

\* C18: a caller back from a call whose function returned an engine cursor
\* holds a MemoryCursorWrapper, and no caller ever holds a raw cursor.
C18_CursorAlwaysWrapped ==
    \A t \in Threads :
       /\ ret[t].kind # "cursor"
       /\ (Returned(t) /\ outcome[call[t].id] = "cursor") =>
             ret[t] = [kind |-> "wrapper", of |-> call[t].id]

\* a caller holds the wrapper that execute on a cursor facade gave it
C18_Witness ==
    \E t \in Threads :
       /\ Returned(t)
       /\ ret[t] = [kind |-> "wrapper", of |-> call[t].id]
       /\ cur.holder = call[t].id
       /\ cur.func = [cls |-> "cur", access |-> "call", member |-> "execute"]

\* C19: every connection Pool.connect returns has had _init_connection
\* applied: text_factory set and pow registered.
C19_ReturnedConnectionInitialised ==
    \A t \in Threads :
       (pret[t].op = "connect" /\ pret[t].kind = "con") =>
          /\ conns[pret[t].con].text_factory
          /\ conns[pret[t].con].pow

\* C20: the lock of a thread that is not inside a marshalled call is held; a
\* free lock is the signal for its thread's current call, whose result is in
\* place; the worker never releases a lock that is not held; and a lock goes
\* from held to free only by the worker's release for that thread's current
\* call, and back only by that thread's acquire.
C20_LockHeldOutsideCalls ==
    [][/\ \A t \in Threads :
             /\ pc'[t] # "acquire" => lock'[t] = "held"
             /\ lock'[t] = "free" =>
                   (pc'[t] = "acquire" /\ holder'[call'[t].id] # << >>)
             /\ (lock[t] = "held" /\ lock'[t] = "free") =>
                   (wpc = "release" /\ cur.lock = t /\ cur.holder = call[t].id
                      /\ wpc' = "get")
             /\ (lock[t] = "free" /\ lock'[t] = "held") =>
                   (pc[t] = "acquire" /\ pc'[t] # "acquire" /\ call'[t].id = call[t].id)
       /\ (wpc' = "release" /\ cur'.lock # 0) => lock'[cur'.lock] = "held"
      ]_vars

\* one thread is back from its third call, the other has made none
C20_Witness ==
    \E t \in Threads :
       /\ Returned(t)
       /\ call[t].id >= 3
       /\ ret[t].of = call[t].id
       /\ lock[t] = "held"
       /\ \A u \in Threads \ {t} : call[u] = NoCall /\ ret[u] = NoRet

====
